---------------------------- MODULE Spec2Model ----------------------------
(***************************************************************************)
(* Model of app.py: the NF-e conference tool.  One uploaded document is    *)
(* parsed (parse_xml), the per-item table is built (build_quadro), the     *)
(* checklist is built (build_checklist) and both are exported; the whole   *)
(* script body runs inside one try block with two except clauses.          *)
(*                                                                         *)
(* Texts are sequences of one-character strings, None is the Python None.  *)
(* decimal.Decimal values are records (sign, coefficient, exponent), and   *)
(* Python floats are IEEE-754 binary64 values kept bit by bit: TLC's       *)
(* integers are 32 bits wide, a double's significand is 53.                *)
(***************************************************************************)
EXTENDS Integers, Sequences, FiniteSets, TLC

\* Python's None as an exception-free outcome or an unset table
None == "None"

\* Python's None where a text (a sequence of characters) is expected
NoText == <<"None">>

Min(a, b) == IF a <= b THEN a ELSE b

RECURSIVE Pow10(_)
Pow10(n) == IF n <= 0 THEN 1 ELSE 10 * Pow10(n - 1)

RECURSIVE Pow2(_)
Pow2(n) == IF n <= 0 THEN 1 ELSE 2 * Pow2(n - 1)


(***************************************************************************)
(* Characters and numerals.                                                *)
(***************************************************************************)
DigitChars == <<"0", "1", "2", "3", "4", "5", "6", "7", "8", "9">>

IsDigit(ch) == \E i \in 1..10 : DigitChars[i] = ch

DigitVal(ch) == (CHOOSE i \in 1..10 : DigitChars[i] = ch) - 1

AllDigits(s) == \A i \in 1..Len(s) : IsDigit(s[i])

RECURSIVE DigitsVal(_)
DigitsVal(s) ==
    IF s = << >> THEN 0
    ELSE 10 * DigitsVal(SubSeq(s, 1, Len(s) - 1)) + DigitVal(s[Len(s)])

\* str(n) for an integer n >= 0
RECURSIVE NatStr(_)
NatStr(n) ==
    IF n < 10 THEN <<DigitChars[n + 1]>>
    ELSE NatStr(n \div 10) \o <<DigitChars[(n % 10) + 1]>>

\* the digits of n, left-padded with zeros to at least w digits
RECURSIVE PadStr(_, _)
PadStr(n, w) ==
    IF w <= 1 THEN NatStr(n)
    ELSE PadStr(n \div 10, w - 1) \o <<DigitChars[(n % 10) + 1]>>

StripSign(s) ==
    IF s # << >> /\ s[1] \in {"+", "-"} THEN SubSeq(s, 2, Len(s)) ELSE s

IsNeg(s) == s # << >> /\ s[1] = "-"

\* int(s) of a non-empty str: [sign] digits; anything else raises ValueError
IntParses(s) == LET b == StripSign(s) IN b # << >> /\ AllDigits(b)

IntOf(s) ==
    LET b == StripSign(s) IN IF IsNeg(s) THEN 0 - DigitsVal(b) ELSE DigitsVal(b)

(***************************************************************************)
(* decimal.Decimal.  k: "F" finite, "N" quiet NaN, "I" infinity; s: sign   *)
(* bit; c: coefficient; e: exponent; dev: the sign of an offset far below  *)
(* the last stored digit (0 for every Decimal built from a text; see       *)
(* RateDec).  Raised is the outcome of an operation that signals           *)
(* InvalidOperation under the default context (the trap is enabled).       *)
(***************************************************************************)
Fin(s, c, e) == [k |-> "F", s |-> s, c |-> c, e |-> e, dev |-> 0]

NaN == [k |-> "N", s |-> 0, c |-> 0, e |-> 0, dev |-> 0]

Inf(s) == [k |-> "I", s |-> s, c |-> 0, e |-> 0, dev |-> 0]

Raised == [k |-> "X", s |-> 0, c |-> 0, e |-> 0, dev |-> 0]

DotAt(s) == IF \E i \in 1..Len(s) : s[i] = "." THEN CHOOSE i \in 1..Len(s) : s[i] = "." ELSE 0

\* Decimal(s) for a str s: [sign] digits [. digits], [sign] NaN, [sign] Inf[inity]
\* (texts of the model carry no exponent part, blanks or underscores).
\* Raised stands for the InvalidOperation (ConversionSyntax) Decimal() throws.
DecimalOfStr(s) ==
    LET b == StripSign(s)
        sg == IF IsNeg(s) THEN 1 ELSE 0
        p == DotAt(b)
        ip == IF p = 0 THEN b ELSE SubSeq(b, 1, p - 1)
        fp == IF p = 0 THEN << >> ELSE SubSeq(b, p + 1, Len(b))
    IN  IF b \in {<<"N", "a", "N">>, <<"n", "a", "n">>} THEN [NaN EXCEPT !.s = sg]
        ELSE IF b \in {<<"I", "n", "f">>, <<"I", "n", "f", "i", "n", "i", "t", "y">>,
                       <<"i", "n", "f">>} THEN Inf(sg)
        ELSE IF AllDigits(ip) /\ AllDigits(fp) /\ Len(ip) + Len(fp) > 0
             THEN Fin(sg, DigitsVal(ip \o fp), 0 - Len(fp))
        ELSE Raised

\* the signed coefficient of a finite Decimal at exponent e <= a.e
Scaled(a, e) == (IF a.s = 1 THEN -1 ELSE 1) * a.c * Pow10(a.e - e)

\* a + b
DecAdd(a, b) ==
    IF a.k = "X" \/ b.k = "X" THEN Raised
    ELSE IF a.k = "N" THEN a
    ELSE IF b.k = "N" THEN b
    ELSE IF a.k = "I" /\ b.k = "I" THEN (IF a.s = b.s THEN a ELSE Raised)
    ELSE IF a.k = "I" THEN a
    ELSE IF b.k = "I" THEN b
    ELSE LET e == Min(a.e, b.e)
             v == Scaled(a, e) + Scaled(b, e)
         IN  IF v = 0 THEN Fin(IF a.s = 1 /\ b.s = 1 THEN 1 ELSE 0, 0, e)
             ELSE IF v < 0 THEN Fin(1, 0 - v, e) ELSE Fin(0, v, e)

DecNeg(a) == IF a.k = "X" THEN a ELSE [a EXCEPT !.s = 1 - a.s, !.dev = 0 - a.dev]

\* a - b
DecSub(a, b) == DecAdd(a, DecNeg(b))

\* abs(a)
DecAbs(a) == IF a.k = "X" THEN a ELSE [a EXCEPT !.s = 0, !.dev = IF a.s = 1 THEN 0 - a.dev ELSE a.dev]

\* a * b
DecMul(a, b) ==
    IF a.k = "X" \/ b.k = "X" THEN Raised
    ELSE IF a.k = "N" THEN a
    ELSE IF b.k = "N" THEN b
    ELSE IF a.k = "I" \/ b.k = "I"
         THEN (IF (a.k = "F" /\ a.c = 0) \/ (b.k = "F" /\ b.c = 0) THEN Raised
               ELSE Inf((a.s + b.s) % 2))
    ELSE [k |-> "F", s |-> (a.s + b.s) % 2, c |-> a.c * b.c, e |-> a.e + b.e,
          dev |-> IF a.c = 0 \/ b.c = 0 THEN 0
                  ELSE a.dev * (IF b.s = 1 THEN -1 ELSE 1) + b.dev * (IF a.s = 1 THEN -1 ELSE 1)]

\* a.quantize(Decimal("0.01"), rounding=ROUND_HALF_UP): a tie goes away from zero.
\* dev is an offset of the magnitude's sign-carrying value below every digit: it
\* decides only an exact tie (dev < 0 on a positive value: just under the tie).
DecQuantize2(a) ==
    IF a.k = "X" THEN Raised
    ELSE IF a.k = "N" THEN a
    ELSE IF a.k = "I" THEN Raised
    ELSE IF a.e >= -2 THEN Fin(a.s, a.c * Pow10(a.e + 2), -2)
    ELSE LET p == Pow10(-2 - a.e)
             q == a.c \div p
             r == a.c % p
             md == IF a.s = 1 THEN 0 - a.dev ELSE a.dev   \* offset of the magnitude
             up == 2 * r > p \/ (2 * r = p /\ md >= 0)
         IN  Fin(a.s, IF up THEN q + 1 ELSE q, -2)

\* -1, 0, 1 for two Decimals that are not NaN
DecCmp(a, b) ==
    IF a.k = "I" \/ b.k = "I"
    THEN LET va == IF a.k = "I" THEN (IF a.s = 1 THEN -1 ELSE 1) ELSE 0
             vb == IF b.k = "I" THEN (IF b.s = 1 THEN -1 ELSE 1) ELSE 0
         IN  IF va < vb THEN -1 ELSE IF va > vb THEN 1 ELSE 0
    ELSE LET e == Min(a.e, b.e)
             va == Scaled(a, e)
             vb == Scaled(b, e)
         IN  IF va < vb THEN -1 ELSE IF va > vb THEN 1
             ELSE IF a.dev < b.dev THEN -1 ELSE IF a.dev > b.dev THEN 1 ELSE 0

\* an ordering comparison (<, <=, >) with a NaN operand signals InvalidOperation
CmpRaises(a, b) == a.k \in {"N", "X"} \/ b.k \in {"N", "X"}

\* a <= b, for operands on which the comparison does not raise
DecLe(a, b) == DecCmp(a, b) <= 0

\* a > b, for operands on which the comparison does not raise
DecGt(a, b) == DecCmp(a, b) > 0

\* a == b: False when either is a quiet NaN, never raises for one
DecEq(a, b) == a.k # "N" /\ b.k # "N" /\ a.k # "X" /\ b.k # "X" /\ DecCmp(a, b) = 0

\* str(a) for exponents in -6..0 (plain notation)
DecStr(a) ==
    LET sg == IF a.s = 1 THEN <<"-">> ELSE << >>
    IN  IF a.k = "N" THEN sg \o <<"N", "a", "N">>
        ELSE IF a.k = "I" THEN sg \o <<"I", "n", "f", "i", "n", "i", "t", "y">>
        ELSE IF a.e >= 0 THEN sg \o NatStr(a.c)
        ELSE sg \o NatStr(a.c \div Pow10(0 - a.e)) \o <<".">>
                \o PadStr(a.c % Pow10(0 - a.e), 0 - a.e)

Zero2 == Fin(0, 0, -2)

\* d(s): Decimal(s), or Decimal("0.00") on any exception (None: TypeError)
d(s) ==
    IF s = NoText THEN Zero2
    ELSE LET v == DecimalOfStr(s) IN IF v.k = "X" THEN Zero2 ELSE v

(***************************************************************************)
(* Python float: IEEE-754 binary64, round to nearest, ties to even.        *)
(* k: "F" finite, "N" nan, "I" infinity; s: sign bit; m: the 53-bit        *)
(* significand M as three 24-bit limbs <<M / 2^48, M / 2^24 mod 2^24,      *)
(* M mod 2^24>> (2^52 <= M < 2^53, all 0 for zero); e: the binary exponent *)
(* of the leading bit: the value is M * 2^(e - 52).  Subnormals and        *)
(* overflow are outside the magnitudes of the model.                       *)
(***************************************************************************)
LimbBits == 24

Pow2Tab == [i \in 0..30 |-> Pow2(i)]

P2(i) == Pow2Tab[i]

Limb == P2(LimbBits)

FZero == [k |-> "F", s |-> 0, m |-> <<0, 0, 0>>, e |-> 0]

FNaN == [k |-> "N", s |-> 0, m |-> <<0, 0, 0>>, e |-> 0]

FInf(s) == [k |-> "I", s |-> s, m |-> <<0, 0, 0>>, e |-> 0]

IsZero(x) == x.m = <<0, 0, 0>>

\* the number of bits of v, 0 <= v < 2^24
BitLen(v) == IF v = 0 THEN 0 ELSE CHOOSE b \in 1..LimbBits : P2(b - 1) <= v /\ v < P2(b)

LimbAt(limbs, i) == IF i >= 1 /\ i <= Len(limbs) THEN limbs[i] ELSE 0

\* the bits pos .. pos+width-1 of the bit string of the limbs (bit 0 is the top
\* bit of the first limb; bits outside the string are 0), 1 <= width <= 24
Window(limbs, pos, width) ==
    LET i == (pos \div LimbBits) + 1
        off == pos % LimbBits
        w1 == LimbBits - off
    IN  IF off + width <= LimbBits
        THEN (LimbAt(limbs, i) \div P2(w1 - width)) % P2(width)
        ELSE (LimbAt(limbs, i) % P2(w1)) * P2(width - w1)
             + LimbAt(limbs, i + 1) \div P2(LimbBits - (width - w1))

\* the limbs shifted right by sh bits, as n limbs
ShiftRight(limbs, sh, n) == [i \in 1..n |-> Window(limbs, LimbBits * (i - 1) - sh, LimbBits)]

\* whether a bit at position pos or after it is set
AnyFrom(limbs, pos) ==
    \E i \in 1..Len(limbs) :
        \/ i > (pos \div LimbBits) + 1 /\ limbs[i] # 0
        \/ i = (pos \div LimbBits) + 1 /\ limbs[i] % P2(LimbBits - (pos % LimbBits)) # 0

\* a + b + cin on limb strings of equal length (the carry out is 0 by construction)
RECURSIVE LimbsAdd(_, _, _)
LimbsAdd(a, b, cin) ==
    IF a = << >> THEN << >>
    ELSE LET n == Len(a)
             t == a[n] + b[n] + cin
         IN  LimbsAdd(SubSeq(a, 1, n - 1), SubSeq(b, 1, n - 1), t \div Limb) \o <<t % Limb>>

\* a - b - bin on limb strings of equal length, a >= b
RECURSIVE LimbsSub(_, _, _)
LimbsSub(a, b, bin) ==
    IF a = << >> THEN << >>
    ELSE LET n == Len(a)
             t == a[n] - b[n] - bin
         IN  LimbsSub(SubSeq(a, 1, n - 1), SubSeq(b, 1, n - 1), IF t < 0 THEN 1 ELSE 0)
                 \o <<IF t < 0 THEN t + Limb ELSE t>>

\* -1, 0, 1: limb strings of equal length compared as numbers
RECURSIVE LimbsCmp(_, _)
LimbsCmp(a, b) ==
    IF a = << >> THEN 0
    ELSE IF a[1] < b[1] THEN -1
    ELSE IF a[1] > b[1] THEN 1
    ELSE LimbsCmp(Tail(a), Tail(b))

\* Round an exact value to binary64.  The value is the integer of the limbs
\* times 2^lowExp, plus, when sticky, a nonzero part below the last bit.
RoundWide(s, limbs, lowExp, sticky) ==
    IF \A i \in 1..Len(limbs) : limbs[i] = 0 THEN [FZero EXCEPT !.s = s]
    ELSE LET j == CHOOSE i \in 1..Len(limbs) : limbs[i] # 0 /\ \A h \in 1..(i - 1) : limbs[h] = 0
             top == LimbBits * (j - 1) + (LimbBits - BitLen(limbs[j]))   \* the leading bit
             e == lowExp + LimbBits * Len(limbs) - 1 - top
             m1 == Window(limbs, top, 5)
             m2 == Window(limbs, top + 5, LimbBits)
             m3 == Window(limbs, top + 29, LimbBits)
             guard == Window(limbs, top + 53, 1)
             rest == sticky \/ AnyFrom(limbs, top + 54)
             up == guard = 1 /\ (rest \/ m3 % 2 = 1)
             c3 == IF m3 + 1 = Limb THEN 1 ELSE 0
             c2 == IF c3 = 1 /\ m2 + 1 = Limb THEN 1 ELSE 0
         IN  IF ~up THEN [k |-> "F", s |-> s, m |-> <<m1, m2, m3>>, e |-> e]
             ELSE IF m1 + c2 = 32 THEN [k |-> "F", s |-> s, m |-> <<16, 0, 0>>, e |-> e + 1]
             ELSE [k |-> "F", s |-> s, e |-> e,
                   m |-> <<m1 + c2, (m2 + c3) % Limb, (m3 + 1) % Limb>>]

\* one more limb of the long division r/D below the binary point: the next 24
\* quotient bits and the remainder, 12 bits at a time (D < 2^19)
DivLimb(r, D) ==
    LET t1 == r * 4096
        t2 == (t1 % D) * 4096
    IN  [q |-> (t1 \div D) * 4096 + t2 \div D, r |-> t2 % D]

\* the double nearest to n/D, for integers 0 <= n and 0 < D < 2^19 with
\* n/D = 0 or n/D >= 2^-20 (correctly rounded: what float(Decimal) gives)
ToDouble(s, n, D) ==
    LET q0 == n \div D
        f1 == DivLimb(n % D, D)
        f2 == DivLimb(f1.r, D)
        f3 == DivLimb(f2.r, D)
        f4 == DivLimb(f3.r, D)
    IN  RoundWide(s, <<q0 \div Limb, q0 % Limb, f1.q, f2.q, f3.q, f4.q>>, -4 * LimbBits, f4.r # 0)

\* float(a) for a Decimal a
FloatOfDec(a) ==
    IF a.k = "N" THEN FNaN
    ELSE IF a.k = "I" THEN FInf(a.s)
    ELSE IF a.e >= 0 THEN ToDouble(a.s, a.c * Pow10(a.e), 1)
    ELSE ToDouble(a.s, a.c, Pow10(0 - a.e))

\* x / float(D) for a double x and an integer 2 <= D < 128 (float(D) is exact):
\* long division of the significand, limb by limb, two limbs below its last bit
FloatDivInt(x, D) ==
    IF x.k # "F" \/ IsZero(x) THEN x
    ELSE LET t2 == (x.m[1] % D) * Limb + x.m[2]
             t3 == (t2 % D) * Limb + x.m[3]
             t4 == (t3 % D) * Limb
             t5 == (t4 % D) * Limb
         IN  RoundWide(x.s, <<x.m[1] \div D, t2 \div D, t3 \div D, t4 \div D, t5 \div D>>,
                       x.e - 52 - 2 * LimbBits, t5 % D # 0)

\* |x| ? |y| for finite doubles: -1, 0, 1
MagCmp(x, y) ==
    IF IsZero(x) /\ IsZero(y) THEN 0
    ELSE IF IsZero(x) THEN -1
    ELSE IF IsZero(y) THEN 1
    ELSE IF x.e < y.e THEN -1
    ELSE IF x.e > y.e THEN 1
    ELSE LimbsCmp(x.m, y.m)

\* x ? y for finite doubles: -1, 0, 1
FloatCmp(x, y) ==
    LET sx == IF IsZero(x) THEN 0 ELSE IF x.s = 1 THEN -1 ELSE 1
        sy == IF IsZero(y) THEN 0 ELSE IF y.s = 1 THEN -1 ELSE 1
    IN  IF sx < sy THEN -1
        ELSE IF sx > sy THEN 1
        ELSE IF sx = 0 THEN 0
        ELSE sx * MagCmp(x, y)

\* x + y for finite doubles: the exact sum, rounded once.  The operand of the
\* smaller exponent is shifted right under the other; 60 or more bits apart it
\* is below a quarter of the last bit of the other, which is the result.
FloatAddFin(x, y) ==
    IF IsZero(x) THEN (IF IsZero(y) THEN [FZero EXCEPT !.s = IF x.s = 1 /\ y.s = 1 THEN 1 ELSE 0] ELSE y)
    ELSE IF IsZero(y) THEN x
    ELSE LET big == IF x.e >= y.e THEN x ELSE y
             small == IF x.e >= y.e THEN y ELSE x
             sh == big.e - small.e
             bb == <<0>> \o big.m \o <<0, 0, 0>>
             sm == ShiftRight(<<0>> \o small.m \o <<0, 0, 0>>, sh, 7)
             c == LimbsCmp(bb, sm)
             low == big.e - 52 - 3 * LimbBits
         IN  IF sh >= 60 THEN big
             ELSE IF x.s = y.s THEN RoundWide(x.s, LimbsAdd(bb, sm, 0), low, FALSE)
             ELSE IF c = 0 THEN FZero
             ELSE IF c > 0 THEN RoundWide(big.s, LimbsSub(bb, sm, 0), low, FALSE)
             ELSE RoundWide(small.s, LimbsSub(sm, bb, 0), low, FALSE)

\* x + y
FloatAdd(x, y) ==
    IF x.k = "N" \/ y.k = "N" THEN FNaN
    ELSE IF x.k = "I" /\ y.k = "I" THEN (IF x.s = y.s THEN x ELSE FNaN)
    ELSE IF x.k = "I" THEN x
    ELSE IF y.k = "I" THEN y
    ELSE FloatAddFin(x, y)

\* floor(sc * |x|) for a finite double x, |x| < 2^24, and an integer
\* 0 < sc < 2^19: sc times the integer part plus floor(sc * fraction), the
\* fraction taken 12 bits at a time
FloorScaled(x, sc) ==
    IF IsZero(x) \/ x.e < -20 THEN 0
    ELSE LET ip == IF x.e >= 0 THEN Window(x.m, 19, x.e + 1) ELSE 0
             p == x.e + 20
             g6 == (sc * Window(x.m, p + 60, 12)) \div 4096
             g5 == (sc * Window(x.m, p + 48, 12) + g6) \div 4096
             g4 == (sc * Window(x.m, p + 36, 12) + g5) \div 4096
             g3 == (sc * Window(x.m, p + 24, 12) + g4) \div 4096
             g2 == (sc * Window(x.m, p + 12, 12) + g3) \div 4096
         IN  sc * ip + (sc * Window(x.m, p, 12) + g2) \div 4096

\* Decimal(str(x)).quantize(Decimal("0.01"), rounding=ROUND_HALF_UP) for a float
\* x.  str(x) is the shortest numeral R that converts back to x.  For a tie
\* point T = (2j+1)/200: T <= R iff double(T) <= x (the conversion is monotonic,
\* and T, with under 16 digits, is the numeral of its double), so |R| rounds
\* to j0 + 1 hundredths when double(T) <= |x| for j0 = floor(100|x|), else to j0.
QuantizeStrFloat(x) ==
    IF x.k = "N" THEN NaN
    ELSE IF x.k = "I" THEN Raised
    ELSE LET j0 == FloorScaled(x, 100)
             tie == ToDouble(0, 2 * j0 + 1, 200)
         IN  Fin(x.s, IF MagCmp(tie, x) <= 0 THEN j0 + 1 ELSE j0, -2)

(***************************************************************************)
(* xml.etree.ElementTree.  A document is the sequence of its nodes in      *)
(* document order, each with its namespace, local tag, attrib (a set of    *)
(* <<name, value>> pairs), text (NoText for Python's None: an element      *)
(* without content) and depth below the root; the subtree of a node is the *)
(* run of deeper nodes that follows it.  An element is a document and the  *)
(* index of a node.  NoElem is Python's None where an element is expected. *)
(***************************************************************************)
NfeNs == "http://www.portalfiscal.inf.br/nfe"

NoElem == [doc |-> << >>, i |-> 0]

Node(elem) == elem.doc[elem.i]

\* bool(s) of a str or None
Truthy(s) == s # NoText /\ s # << >>

\* elem.iter(): the element and its descendants in document order
Iter(elem) ==
    LET after == {j \in (elem.i + 1)..Len(elem.doc) : elem.doc[j].depth <= Node(elem).depth}
        last == IF after = {} THEN Len(elem.doc)
                ELSE (CHOOSE j \in after : \A h \in after : j <= h) - 1
    IN  [h \in 1..(last - elem.i + 1) |-> [elem EXCEPT !.i = elem.i + h - 1]]

\* list(elem): the children
Children(elem) == SelectSeq(Tail(Iter(elem)), LAMBDA x : Node(x).depth = Node(elem).depth + 1)

Matching(elems, tag) == SelectSeq(elems, LAMBDA x : Node(x).ns = NfeNs /\ Node(x).tag = tag)

\* one step of a path from each of elems in turn: "nfe:tag" (children) or
\* ".//nfe:tag" (descendants, the element itself excluded)
RECURSIVE StepAll(_, _)
StepAll(elems, step) ==
    IF elems = << >> THEN << >>
    ELSE (IF step[1] = "child" THEN Matching(Children(Head(elems)), step[2])
          ELSE Matching(Tail(Iter(Head(elems))), step[2]))
         \o StepAll(Tail(elems), step)

RECURSIVE Walk(_, _)
Walk(elems, path) ==
    IF path = << >> THEN elems ELSE Walk(StepAll(elems, Head(path)), Tail(path))

\* elem.findall(path, ns)
findall(elem, path) == Walk(<<elem>>, path)

\* elem.find(path, ns)
find(elem, path) == LET r == findall(elem, path) IN IF r = << >> THEN NoElem ELSE r[1]

\* paths of the form "nfe:a", "nfe:a/nfe:b", ".//nfe:a", ".//nfe:a/nfe:b/..."
Child(tag) == <<<<"child", tag>>>>

Desc(tag) == <<<<"desc", tag>>>>

\* gettext(elem, path)
gettext(elem, path) ==
    IF elem = NoElem THEN << >>
    ELSE LET found == find(elem, path) IN IF found # NoElem THEN Node(found).text ELSE << >>

\* elem.attrib.get(name, "")
AttribGet(elem, name) ==
    IF \E p \in Node(elem).attrib : p[1] = name
    THEN (CHOOSE p \in Node(elem).attrib : p[1] = name)[2]
    ELSE << >>

\* x.find(path) if x is not None else None
FindIn(x, path) == IF x # NoElem THEN find(x, path) ELSE NoElem

\* list(parent)[0] if (parent is not None and len(parent)) else None
FirstChild(parent) ==
    IF parent # NoElem /\ Len(Children(parent)) > 0 THEN Children(parent)[1] ELSE NoElem

\* the first child whose local tag is IPITrib or IPINT (the namespace is cut off
\* the tag before the comparison, so any namespace matches)
RECURSIVE FirstIpi(_)
FirstIpi(kids) ==
    IF kids = << >> THEN NoElem
    ELSE IF Node(Head(kids)).tag \in {"IPITrib", "IPINT"} THEN Head(kids)
    ELSE FirstIpi(Tail(kids))

IpiNode(ipi_parent) ==
    IF ipi_parent # NoElem /\ Len(Children(ipi_parent)) > 0 THEN FirstIpi(Children(ipi_parent)) ELSE NoElem

(***************************************************************************)
(* build_quadro: one row per det, in document order.                       *)
(***************************************************************************)
\* the row's "Ordem": int(nItem) if nItem else None ("TOTAL" in the totals row)
OrdInt(n) == [k |-> "int", n |-> n]

OrdNone == [k |-> "None", n |-> 0]

OrdTotal == [k |-> "TOTAL", n |-> 0]

\* CST, vBC, rate and amount of ICMS, PIS or COFINS: read from the first child
\* of the container imposto/<tax>
TaxNode(imposto, tax) == FirstChild(FindIn(imposto, Child(tax)))

\* mutant: the discount is added
TotalItemDiscountAdded(vProd, vFrete, vSeg, vOutro, vDesc, vIPI) ==
    DecQuantize2(DecAdd(DecAdd(DecAdd(DecAdd(DecAdd(vProd, vFrete), vSeg), vOutro), vDesc), vIPI))

\* TOTAL ITEM: vProd + vFrete + vSeg + vOutro - vDesc + vIPI, quantized
TotalItem(vProd, vFrete, vSeg, vOutro, vDesc, vIPI) ==
    DecQuantize2(DecAdd(DecSub(DecAdd(DecAdd(DecAdd(vProd, vFrete), vSeg), vOutro), vDesc), vIPI))

\* the exception the body of the loop over the det elements raises for det
\* (None: it appends a row): quantize of an infinite total, then int(nItem)
QuadroRowExc(det) ==
    LET nItem == AttribGet(det, "nItem")
        prod == find(det, Child("prod"))
        imposto == find(det, Child("imposto"))
        ipi_node == IpiNode(FindIn(imposto, Child("IPI")))
        total_item == TotalItem(d(gettext(prod, Child("vProd"))), d(gettext(prod, Child("vFrete"))),
                                d(gettext(prod, Child("vSeg"))), d(gettext(prod, Child("vOutro"))),
                                d(gettext(prod, Child("vDesc"))), d(gettext(ipi_node, Child("vIPI"))))
    IN  IF total_item.k = "X" THEN "InvalidOperation"
        ELSE IF nItem # << >> /\ ~IntParses(nItem) THEN "ValueError"
        ELSE None

\* the body of the loop over the det elements: the row appended for det
QuadroRow(det) ==
    LET nItem == AttribGet(det, "nItem")
        prod == find(det, Child("prod"))
        imposto == find(det, Child("imposto"))
        vProd == d(gettext(prod, Child("vProd")))
        vFrete == d(gettext(prod, Child("vFrete")))
        vSeg == d(gettext(prod, Child("vSeg")))
        vDesc == d(gettext(prod, Child("vDesc")))
        vOutro == d(gettext(prod, Child("vOutro")))
        icms_node == TaxNode(imposto, "ICMS")
        pis_node == TaxNode(imposto, "PIS")
        cof_node == TaxNode(imposto, "COFINS")
        ipi_node == IpiNode(FindIn(imposto, Child("IPI")))
        vIPI == d(gettext(ipi_node, Child("vIPI")))
        ibscbs == FindIn(imposto, Child("IBSCBS"))
        cst_ibs == gettext(ibscbs, Child("CST"))
        cclass == gettext(ibscbs, Child("cClassTrib"))
        g == FindIn(ibscbs, Child("gIBSCBS"))
        vBC_ibs == d(gettext(g, Child("vBC")))
        gCBS == FindIn(g, Child("gCBS"))
        vCBS == d(IF gCBS # NoElem THEN gettext(gCBS, Child("vCBS")) ELSE << >>)
        total_item == TotalItem(vProd, vFrete, vSeg, vOutro, vDesc, vIPI)
    IN  [Ordem |-> IF nItem # << >> /\ IntParses(nItem) THEN OrdInt(IntOf(nItem)) ELSE OrdNone,
         cProd |-> gettext(prod, Child("cProd")),
         NCM |-> gettext(prod, Child("NCM")),
         CFOP |-> gettext(prod, Child("CFOP")),
         CST_ICMS |-> gettext(icms_node, Child("CST")),
         BC_ICMS |-> FloatOfDec(d(gettext(icms_node, Child("vBC")))),
         ALIQ_ICMS |-> FloatOfDec(d(gettext(icms_node, Child("pICMS")))),
         VALOR_ICMS |-> FloatOfDec(d(gettext(icms_node, Child("vICMS")))),
         CST_PIS |-> gettext(pis_node, Child("CST")),
         BASE_PIS |-> FloatOfDec(d(gettext(pis_node, Child("vBC")))),
         ALIQ_PIS |-> FloatOfDec(d(gettext(pis_node, Child("pPIS")))),
         VALOR_PIS |-> FloatOfDec(d(gettext(pis_node, Child("vPIS")))),
         CST_COFINS |-> gettext(cof_node, Child("CST")),
         BASE_COFINS |-> FloatOfDec(d(gettext(cof_node, Child("vBC")))),
         ALIQ_COFINS |-> FloatOfDec(d(gettext(cof_node, Child("pCOFINS")))),
         VALOR_COFINS |-> FloatOfDec(d(gettext(cof_node, Child("vCOFINS")))),
         CST_IBS |-> cst_ibs,
         CLASSETRIB_IBS |-> cclass,
         BASE_IBS |-> FloatOfDec(vBC_ibs),
         VALOR_IBS |-> FloatOfDec(d(gettext(g, Child("vIBS")))),
         CST_CBS |-> cst_ibs,
         CLASSETRIB_CBS |-> cclass,
         BASE_CBS |-> FloatOfDec(vBC_ibs),
         VALOR_CBS |-> FloatOfDec(vCBS),
         BASE_IPI |-> FloatOfDec(d(gettext(ipi_node, Child("vBC")))),
         VALOR_IPI |-> FloatOfDec(vIPI),
         TOTAL_ITEM |-> IF total_item.k = "X" THEN FNaN ELSE FloatOfDec(total_item)]

numeric_cols == <<"BC_ICMS", "ALIQ_ICMS", "VALOR_ICMS", "BASE_PIS", "ALIQ_PIS", "VALOR_PIS",
                  "BASE_COFINS", "ALIQ_COFINS", "VALOR_COFINS", "BASE_IBS", "VALOR_IBS",
                  "BASE_CBS", "VALOR_CBS", "BASE_IPI", "VALOR_IPI", "TOTAL_ITEM">>

NumericCols == {numeric_cols[i] : i \in 1..Len(numeric_cols)}

\* "Ordem" a before b in sort_values("Ordem"): ascending, a missing value last
OrdBefore(a, b) == a.k = "int" /\ (b.k # "int" \/ a.n < b.n)

\* the row r put into the sorted rows, after every row that is not after it
RECURSIVE InsertRow(_, _)
InsertRow(rs, r) ==
    IF rs = << >> THEN <<r>>
    ELSE IF OrdBefore(r.Ordem, Head(rs).Ordem) THEN <<r>> \o rs
    ELSE <<Head(rs)>> \o InsertRow(Tail(rs), r)

\* DataFrame.sort_values("Ordem"): rows with equal keys keep their order (the
\* sort of a short column is an insertion sort)
RECURSIVE SortValues(_)
SortValues(rs) ==
    IF rs = << >> THEN << >>
    ELSE InsertRow(SortValues(SubSeq(rs, 1, Len(rs) - 1)), rs[Len(rs)])

\* Series.sum() of a float column: nan cells are skipped, the others are added
\* to 0.0 in row order
RECURSIVE FloatSum(_, _)
FloatSum(rs, col) ==
    IF rs = << >> THEN FZero
    ELSE LET x == rs[Len(rs)][col]
             h == FloatSum(SubSeq(rs, 1, Len(rs) - 1), col)
         IN  IF x.k = "N" THEN h ELSE FloatAdd(h, x)

\* totals[col]: Decimal(str(df[col].sum())).quantize(0.01, ROUND_HALF_UP)
ColTotal(df, col) == QuantizeStrFloat(FloatSum(df, col))

\* the totals row: "" in every column, "TOTAL" in Ordem, float(totals[col])
TotalsRow(df) ==
    [c \in {"Ordem", "cProd", "NCM", "CFOP", "CST_ICMS", "CST_PIS", "CST_COFINS",
            "CST_IBS", "CLASSETRIB_IBS", "CST_CBS", "CLASSETRIB_CBS"} \cup NumericCols |->
        IF c = "Ordem" THEN OrdTotal
        ELSE IF c \in NumericCols THEN FloatOfDec(ColTotal(df, c))
        ELSE << >>]

\* the exception the code after the loop raises: sort_values on a frame without
\* columns (no rows), or quantize of an infinite column sum
QuadroExc(rs) ==
    IF rs = << >> THEN "KeyError"
    ELSE IF \E c \in NumericCols : ColTotal(SortValues(rs), c).k = "X" THEN "InvalidOperation"
    ELSE None

\* df_total: the sorted rows, then the totals row
QuadroTable(rs) == LET df == SortValues(rs) IN df \o <<TotalsRow(df)>>

(***************************************************************************)
(* build_checklist.  A text of the checklist is a sequence of string       *)
(* pieces (a literal is one piece, a formatted number one piece per        *)
(* character).  Status "OK" stands for the check mark, "FAIL" for the      *)
(* cross.                                                                  *)
(***************************************************************************)
\* add(grupo, campo, regra, ok, encontrado, esperado): the row appended; None
\* (NoText) for encontrado or esperado gives ""
add(grupo, campo, regra, ok, encontrado, esperado) ==
    [Grupo |-> grupo, Campo |-> campo, Regra |-> regra,
     Status |-> IF ok THEN "OK" ELSE "FAIL",
     Encontrado |-> IF encontrado = NoText THEN << >> ELSE encontrado,
     Esperado |-> IF esperado = NoText THEN << >> ELSE esperado]

\* f"{x:.2f}" for the float x nearest to k/100
Fmt2(k) == NatStr(k \div 100) \o <<".">> \o PadStr(k % 100, 2)

\* Decimal(str(tol)) for the float tol nearest to t/100: str gives the numeral
\* of t/100 (the shortest that converts back), a Decimal equal to t/100
TolDec(t) == IF t % 10 = 0 THEN Fin(0, t \div 10, -1) ELSE Fin(0, t, -2)

\* Decimal(str(pct / 100.0)) for the float pct nearest to k/100.  The quotient
\* x is a double; str(x) is the shortest numeral R that converts back to x.
\* R = k/10000 when x is the double of k/10000; otherwise R lies on the side of
\* k/10000 where x lies of that double, within 10^-15 of it: the value is kept
\* as k/10000 with dev, the sign of the difference.
RateDec(k) ==
    LET x == FloatDivInt(ToDouble(0, k, 100), 100)
    IN  [k |-> "F", s |-> 0, c |-> k, e |-> -4, dev |-> FloatCmp(x, ToDouble(0, k, 10000))]

\* the header row and the six party rows
HeadChecks(root) ==
    LET tpAmb == gettext(root, Desc("ide") \o Child("tpAmb"))
        emit_cnpj == gettext(root, Desc("emit") \o Child("CNPJ"))
        emit_ie == gettext(root, Desc("emit") \o Child("IE"))
        dest_cnpj == gettext(root, Desc("dest") \o Child("CNPJ"))
        dest_ie == gettext(root, Desc("dest") \o Child("IE"))
        dest_uf == gettext(root, Desc("dest") \o Child("enderDest") \o Child("UF"))
        indIEDest == gettext(root, Desc("dest") \o Child("indIEDest"))
    IN  << add(<<"Cabecalho">>, "ide/tpAmb", <<"Deve ser 2 (homologacao)">>, tpAmb = <<"2">>, tpAmb, <<"2">>),
           add(<<"Partes">>, "emit/CNPJ", <<"Preenchido">>, Truthy(emit_cnpj), emit_cnpj, NoText),
           add(<<"Partes">>, "emit/IE", <<"Preenchido">>, Truthy(emit_ie), emit_ie, NoText),
           add(<<"Partes">>, "dest/CNPJ", <<"Preenchido">>, Truthy(dest_cnpj), dest_cnpj, NoText),
           add(<<"Partes">>, "dest/IE", <<"Preenchido">>, Truthy(dest_ie), dest_ie, NoText),
           add(<<"Partes">>, "dest/UF", <<"Preenchido">>, Truthy(dest_uf), dest_uf, NoText),
           add(<<"Partes">>, "dest/indIEDest", <<"Deve ser 1 (contribuinte)">>,
               indIEDest = <<"1">>, indIEDest, <<"1">>) >>

\* f"Item {idx}"
ItemLabel(idx) == <<"Item ">> \o NatStr(idx)

\* abs(observed - expected) <= tol_dec
WithinTol(observed, expected, tol_dec) == DecLe(DecAbs(DecSub(observed, expected)), tol_dec)

\* what the loop body reads and computes for det
ItemVals(det, ibs_pct, cbs_pct) ==
    LET imp == find(det, Child("imposto"))
        ibscbs == FindIn(imp, Child("IBSCBS"))
        g == FindIn(ibscbs, Child("gIBSCBS"))
        gCBS == FindIn(g, Child("gCBS"))
        vBC == d(gettext(g, Child("vBC")))
    IN  [cst |-> gettext(ibscbs, Child("CST")),
         cclass |-> gettext(ibscbs, Child("cClassTrib")),
         vBC |-> vBC,
         vIBS |-> d(gettext(g, Child("vIBS"))),
         vCBS |-> d(IF gCBS # NoElem THEN gettext(gCBS, Child("vCBS")) ELSE << >>),
         expected_vIBS |-> DecQuantize2(DecMul(vBC, RateDec(ibs_pct))),
         expected_vCBS |-> DecQuantize2(DecMul(vBC, RateDec(cbs_pct)))]

\* whether the loop body raises decimal.InvalidOperation for the values v of
\* a det: vBC > 0 on a NaN, the product or its quantize on an infinity,
\* abs(..) <= tol on a NaN, or a running sum of opposite infinities
ItemRaises(v, tol, sums) ==
    \/ CmpRaises(v.vBC, Zero2)
    \/ v.expected_vIBS.k = "X"
    \/ v.expected_vCBS.k = "X"
    \/ CmpRaises(DecAbs(DecSub(v.vIBS, v.expected_vIBS)), TolDec(tol))
    \/ CmpRaises(DecAbs(DecSub(v.vCBS, v.expected_vCBS)), TolDec(tol))
    \/ DecAdd(sums.vBC, v.vBC).k = "X"
    \/ DecAdd(sums.vIBS, v.vIBS).k = "X"
    \/ DecAdd(sums.vCBS, v.vCBS).k = "X"

\* the five rows of an item under the group label, v the values of its det
ItemRows(label, v, ibs_pct, cbs_pct, tol) ==
    LET tol_dec == TolDec(tol)
    IN  << add(label, "IBSCBS/CST", <<"Preenchido">>, Truthy(v.cst), v.cst, NoText),
           add(label, "IBSCBS/cClassTrib", <<"Preenchido">>, Truthy(v.cclass), v.cclass, NoText),
           add(label, "IBSCBS/vBC", <<"Preenchido (>0 quando tributado)">>,
               DecGt(v.vBC, Zero2), DecStr(v.vBC), NoText),
           add(label, "VALOR IBS", <<"vBC x ">> \o Fmt2(ibs_pct) \o <<"% (2 casas)">>,
               WithinTol(v.vIBS, v.expected_vIBS, tol_dec), DecStr(v.vIBS), DecStr(v.expected_vIBS)),
           add(label, "VALOR CBS", <<"vBC x ">> \o Fmt2(cbs_pct) \o <<"% (2 casas)">>,
               WithinTol(v.vCBS, v.expected_vCBS, tol_dec), DecStr(v.vCBS), DecStr(v.expected_vCBS)) >>

\* mutant: the rows are labelled with the det's nItem attribute
ItemChecksByNItem(idx, det, ibs_pct, cbs_pct, tol) ==
    ItemRows(<<"Item ">> \o AttribGet(det, "nItem"), ItemVals(det, ibs_pct, cbs_pct), ibs_pct, cbs_pct, tol)

\* the five rows of the item at position idx (from 1) of the document
ItemChecks(idx, det, ibs_pct, cbs_pct, tol) ==
    ItemRows(ItemLabel(idx), ItemVals(det, ibs_pct, cbs_pct), ibs_pct, cbs_pct, tol)

\* mutant: the totals are compared within a tolerance of 0.01
TotalChecksWithTolerance(root, sums) ==
    LET vBC_total == d(gettext(root, Desc("IBSCBSTot") \o Child("vBCIBSCBS")))
        vIBS_total == d(gettext(root, Desc("IBSCBSTot") \o Child("gIBS") \o Child("vIBS")))
        vCBS_total == d(gettext(root, Desc("IBSCBSTot") \o Child("gCBS") \o Child("vCBS")))
        near(a, b) == ~CmpRaises(a, b) /\ WithinTol(a, b, Fin(0, 1, -2))
    IN  << add(<<"Totais">>, "IBSCBSTot/vBCIBSCBS", <<"Soma vBC_itens">>,
               near(sums.vBC, vBC_total), DecStr(vBC_total), DecStr(sums.vBC)),
           add(<<"Totais">>, "IBSCBSTot/gIBS/vIBS", <<"Soma vIBS_itens">>,
               near(sums.vIBS, vIBS_total), DecStr(vIBS_total), DecStr(sums.vIBS)),
           add(<<"Totais">>, "IBSCBSTot/gCBS/vCBS", <<"Soma vCBS_itens">>,
               near(sums.vCBS, vCBS_total), DecStr(vCBS_total), DecStr(sums.vCBS)) >>

\* the three rows of the totals block IBSCBSTot
TotalChecks(root, sums) ==
    LET vBC_total == d(gettext(root, Desc("IBSCBSTot") \o Child("vBCIBSCBS")))
        vIBS_total == d(gettext(root, Desc("IBSCBSTot") \o Child("gIBS") \o Child("vIBS")))
        vCBS_total == d(gettext(root, Desc("IBSCBSTot") \o Child("gCBS") \o Child("vCBS")))
    IN  << add(<<"Totais">>, "IBSCBSTot/vBCIBSCBS", <<"Soma vBC_itens">>,
               DecEq(sums.vBC, vBC_total), DecStr(vBC_total), DecStr(sums.vBC)),
           add(<<"Totais">>, "IBSCBSTot/gIBS/vIBS", <<"Soma vIBS_itens">>,
               DecEq(sums.vIBS, vIBS_total), DecStr(vIBS_total), DecStr(sums.vIBS)),
           add(<<"Totais">>, "IBSCBSTot/gCBS/vCBS", <<"Soma vCBS_itens">>,
               DecEq(sums.vCBS, vCBS_total), DecStr(vCBS_total), DecStr(sums.vCBS)) >>

(***************************************************************************)
(* The script body (lines 349-393): one run for one state of the widgets.  *)
(* uploaded: the file_uploader's value (present, and whether its bytes are *)
(* well-formed XML, with the tree they parse to); ibs_pct, cbs_pct,        *)
(* tolerance_centavos: the number_input values in hundredths (the float is *)
(* the double nearest to the value / 100).                                 *)
(***************************************************************************)
VARIABLES uploaded, ibs_pct, cbs_pct, tolerance_centavos,
          pc, root, rows, df_quadro, checks, sums, df_check, ui

vars == <<uploaded, ibs_pct, cbs_pct, tolerance_centavos,
          pc, root, rows, df_quadro, checks, sums, df_check, ui>>

inputs == <<uploaded, ibs_pct, cbs_pct, tolerance_centavos>>

\* root.findall(".//nfe:det", ns)
Dets(r) == findall(r, Desc("det"))

\* gettext(..) or "-" (the dash of st.metric)
OrDash(s) == IF Truthy(s) THEN s ELSE <<"-">>

\* the four st.metric calls of the header summary
HeaderMetrics(r) ==
    << [w |-> "st.metric", v |-> OrDash(gettext(r, Desc("ide") \o Child("tpAmb")))],
       [w |-> "st.metric", v |-> OrDash(gettext(r, Desc("emit") \o Child("CNPJ")))],
       [w |-> "st.metric", v |-> OrDash(gettext(r, Desc("dest") \o Child("CNPJ")))],
       [w |-> "st.metric", v |-> OrDash(gettext(r, Desc("dest") \o Child("enderDest") \o Child("UF")))] >>

Out(w) == [w |-> w, v |-> << >>]

\* mutant: "except Exception" catches first
ExceptGenericFirst(e) == [w |-> "st.exception", v |-> <<e>>]

\* the except clause that takes the exception e: ET.ParseError has its own
\* (st.error), every other exception goes to st.exception
ExceptClause(e) == IF e = "ParseError" THEN Out("st.error") ELSE [w |-> "st.exception", v |-> <<e>>]

\* an exception e leaves the try block: its except clause runs, the script ends
Raise(e) ==
    /\ ui' = Append(ui, ExceptClause(e))
    /\ pc' = "done"

\* parse_xml(content): ET.parse raises ParseError on bytes that are not
\* well-formed, and gives the root otherwise
ParseRaises(content) == ~content.wellformed

\* else branch of "if uploaded is not None": st.info, nothing is run
NoUpload ==
    /\ pc = "start"
    /\ ~uploaded.present
    /\ ui' = Append(ui, Out("st.info"))
    /\ pc' = "done"
    /\ UNCHANGED <<inputs, root, rows, df_quadro, checks, sums, df_check>>

\* root = parse_xml(uploaded.read()), then the header summary
ParseXml ==
    /\ pc = "start"
    /\ uploaded.present
    /\ IF ParseRaises(uploaded)
       THEN Raise("ParseError") /\ UNCHANGED root
       ELSE /\ root' = uploaded.tree
            /\ ui' = ui \o HeaderMetrics(uploaded.tree)
            /\ pc' = "build_quadro"
    /\ UNCHANGED <<inputs, rows, df_quadro, checks, sums, df_check>>

\* build_quadro, one pass of "for det in root.findall(..)"
QuadroDet ==
    /\ pc = "build_quadro"
    /\ Len(rows) < Len(Dets(root))
    /\ \E det \in {Dets(root)[Len(rows) + 1]} :
          LET e == QuadroRowExc(det)
          IN  IF e # None
              THEN Raise(e) /\ UNCHANGED rows
              ELSE rows' = Append(rows, QuadroRow(det)) /\ UNCHANGED <<pc, ui>>
    /\ UNCHANGED <<inputs, root, df_quadro, checks, sums, df_check>>

\* build_quadro after the loop (sort, totals row, concat), then st.dataframe
QuadroEnd ==
    /\ pc = "build_quadro"
    /\ Len(rows) = Len(Dets(root))
    /\ LET e == QuadroExc(rows)
       IN  IF e # None
           THEN Raise(e) /\ UNCHANGED df_quadro
           ELSE /\ df_quadro' = QuadroTable(rows)
                /\ ui' = Append(ui, Out("st.dataframe(df_quadro)"))
                /\ pc' = "build_checklist"
    /\ UNCHANGED <<inputs, root, rows, checks, sums, df_check>>

\* build_checklist up to the loop: header and party rows, the sums at 0.00
ChecklistBegin ==
    /\ pc = "build_checklist"
    /\ checks' = HeadChecks(root)
    /\ sums' = [n |-> 0, vBC |-> Zero2, vIBS |-> Zero2, vCBS |-> Zero2]
    /\ pc' = "checklist_items"
    /\ UNCHANGED <<inputs, root, rows, df_quadro, df_check, ui>>

\* build_checklist, one pass of "for idx, det in enumerate(.., start=1)"
ChecklistDet ==
    /\ pc = "checklist_items"
    /\ sums.n < Len(Dets(root))
    /\ \E idx \in {sums.n + 1} : \E det \in {Dets(root)[idx]} :
       \E v \in {ItemVals(det, ibs_pct, cbs_pct)} :
          IF ItemRaises(v, tolerance_centavos, sums)
          THEN Raise("InvalidOperation") /\ UNCHANGED <<checks, sums>>
          ELSE /\ checks' = checks \o ItemChecks(idx, det, ibs_pct, cbs_pct, tolerance_centavos)
               /\ sums' = [n |-> idx, vBC |-> DecAdd(sums.vBC, v.vBC),
                           vIBS |-> DecAdd(sums.vIBS, v.vIBS), vCBS |-> DecAdd(sums.vCBS, v.vCBS)]
               /\ UNCHANGED <<pc, ui>>
    /\ UNCHANGED <<inputs, root, rows, df_quadro, df_check>>

\* build_checklist after the loop: the totals rows, the frame, then st.dataframe
ChecklistEnd ==
    /\ pc = "checklist_items"
    /\ sums.n = Len(Dets(root))
    /\ checks' = checks \o TotalChecks(root, sums)
    /\ df_check' = checks'
    /\ ui' = Append(ui, Out("st.dataframe(df_check)"))
    /\ pc' = "export"
    /\ UNCHANGED <<inputs, root, rows, df_quadro, sums>>

\* the vNF line (quantize raises on an infinite vNF), to_export_bytes and the
\* download button
Export ==
    /\ pc = "export"
    /\ LET vNF_fmt == DecQuantize2(d(gettext(root, Desc("total") \o Child("ICMSTot") \o Child("vNF"))))
       IN  IF vNF_fmt.k = "X"
           THEN Raise("InvalidOperation")
           ELSE /\ ui' = ui \o << [w |-> "st.info", v |-> DecStr(vNF_fmt)],
                                 [w |-> "st.download_button", v |-> <<"QuadroResumo", "Checklist">>] >>
                /\ pc' = "done"
    /\ UNCHANGED <<inputs, root, rows, df_quadro, checks, sums, df_check>>

Next ==
    \/ NoUpload
    \/ ParseXml
    \/ QuadroDet
    \/ QuadroEnd
    \/ ChecklistBegin
    \/ ChecklistDet
    \/ ChecklistEnd
    \/ Export

\* the state in which the script body starts
Start ==
    /\ pc = "start"
    /\ root = NoElem
    /\ rows = << >>
    /\ df_quadro = << >>
    /\ checks = << >>
    /\ sums = [n |-> 0, vBC |-> Zero2, vIBS |-> Zero2, vCBS |-> Zero2]
    /\ df_check = << >>
    /\ ui = << >>

(***************************************************************************)
(* Documents.  The uploaded bytes are given by the tree they parse to; the *)
(* operators below build NF-e trees (nfeProc/NFe/infNFe with ide, emit,    *)
(* dest, det.. and total) from the texts of their fields.  Each gives the  *)
(* nodes of one element, or of several siblings one after the other.       *)
(* Absent as a field's text means that the element is not in the document, *)
(* NoText that it is there without content.                                *)
(***************************************************************************)
Absent == <<"absent">>

\* the nodes one level down
Deepen(nodes) == [h \in 1..Len(nodes) |-> [nodes[h] EXCEPT !.depth = @ + 1]]

ElAttr(tag, attrib, kids) ==
    <<[ns |-> NfeNs, tag |-> tag, attrib |-> attrib, text |-> NoText, depth |-> 0]>> \o Deepen(kids)

El(tag, kids) == ElAttr(tag, {}, kids)

Leaf(tag, text) == <<[ns |-> NfeNs, tag |-> tag, attrib |-> {}, text |-> text, depth |-> 0]>>

\* the element <tag>text</tag>, unless the text is Absent
Opt(tag, text) == IF text = Absent THEN << >> ELSE Leaf(tag, text)

\* the siblings docs[1], docs[2], ..
RECURSIVE Siblings(_)
Siblings(docs) == IF docs = << >> THEN << >> ELSE Head(docs) \o Siblings(Tail(docs))

\* numerals: c hundredths ("12.34"), c thousandths ("1.234")
Money(c) == DecStr(Fin(0, c, -2))

Mils(c) == DecStr(Fin(0, c, -3))

TxtNaN == <<"N", "a", "N">>

TxtInf == <<"I", "n", "f", "i", "n", "i", "t", "y">>

TxtNegInf == <<"-">> \o TxtInf

TxtJunk == <<"a", "b", "c">>

\* one variant element of ICMS, PIS or COFINS: <variant><CST/><vBC/><p../><v../>
TaxVariant(variant, tax, cst, vBC, p, v) ==
    El(variant, Opt("CST", cst) \o Opt("vBC", vBC) \o Opt("p" \o tax, p) \o Opt("v" \o tax, v))

\* the container <tax> around its variants
TaxGroup(tax, variants) == El(tax, variants)

\* <IBSCBS><CST/><cClassTrib/><gIBSCBS><vBC/><vIBS/><gCBS><vCBS/></gCBS></gIBSCBS></IBSCBS>
IbsCbs(cst, cclass, vBC, vIBS, vCBS) ==
    El("IBSCBS", Opt("CST", cst) \o Opt("cClassTrib", cclass)
          \o El("gIBSCBS", Opt("vBC", vBC) \o Opt("vIBS", vIBS)
                   \o (IF vCBS = Absent THEN << >> ELSE El("gCBS", Opt("vCBS", vCBS)))))

\* <det nItem=..><prod>..</prod><imposto>..</imposto></det>; taxes: the children
\* of imposto
DetOf(nItem, kids) == ElAttr("det", IF nItem = Absent THEN {} ELSE {<<"nItem", nItem>>}, kids)

Det(nItem, prodKids, taxes) == DetOf(nItem, El("prod", prodKids) \o El("imposto", taxes))

Prod(vProd, vFrete, vSeg, vDesc, vOutro) ==
    Leaf("cProd", <<"P", "1">>) \o Leaf("NCM", <<"8", "4">>) \o Leaf("CFOP", <<"5", "1">>)
    \o Opt("vProd", vProd) \o Opt("vFrete", vFrete) \o Opt("vSeg", vSeg)
    \o Opt("vDesc", vDesc) \o Opt("vOutro", vOutro)

StdIcms == TaxGroup("ICMS", TaxVariant("ICMS00", "ICMS", <<"0", "0">>, Money(10000), Money(1800), Money(1800)))

StdPis == TaxGroup("PIS", TaxVariant("PISAliq", "PIS", <<"0", "1">>, Money(10000), Money(165), Money(165)))

StdCofins == TaxGroup("COFINS", TaxVariant("COFINSAliq", "COFINS", <<"0", "1">>, Money(10000), Money(760), Money(760)))

StdIpi == El("IPI", El("IPITrib", Leaf("vBC", Money(10000)) \o Leaf("vIPI", Money(500))))

StdIbsCbs == IbsCbs(<<"0", "0", "0">>, <<"0", "0", "0", "0", "0", "1">>, Money(10000), Money(10), Money(90))

\* the item of the scenario: product 100.00, IPI 5.00, base 100.00, IBS 0.10, CBS 0.90
StdDet(nItem) ==
    Det(nItem, Prod(Money(10000), Absent, Absent, Absent, Absent),
        StdIcms \o StdIpi \o StdPis \o StdCofins \o StdIbsCbs)

Ide(tpAmb) == El("ide", Opt("tpAmb", tpAmb))

Emit(cnpj, ie) == El("emit", Opt("CNPJ", cnpj) \o Opt("IE", ie))

Dest(cnpj, ie, uf, ind) ==
    El("dest", Opt("CNPJ", cnpj) \o Opt("IE", ie)
          \o (IF uf = Absent THEN << >> ELSE El("enderDest", Leaf("UF", uf)))
          \o Opt("indIEDest", ind))

\* <total><ICMSTot><vNF/></ICMSTot><IBSCBSTot><vBCIBSCBS/><gIBS><vIBS/></gIBS><gCBS><vCBS/></gCBS></IBSCBSTot></total>
Total(vNF, vBC, vIBS, vCBS) ==
    El("total", El("ICMSTot", Opt("vNF", vNF))
                \o El("IBSCBSTot", Opt("vBCIBSCBS", vBC)
                        \o (IF vIBS = Absent THEN << >> ELSE El("gIBS", Leaf("vIBS", vIBS)))
                        \o (IF vCBS = Absent THEN << >> ELSE El("gCBS", Leaf("vCBS", vCBS)))))

StdHead == Ide(<<"2">>) \o Emit(<<"1", "1">>, <<"2", "2">>) \o Dest(<<"3", "3">>, <<"4", "4">>, <<"S", "P">>, <<"1">>)

\* the document of the header elements, the items (a sequence of det) and total
NFe(head, dets, total) ==
    [doc |-> El("nfeProc", El("NFe", El("infNFe", head \o Siblings(dets) \o total))), i |-> 1]

\* the values of st.file_uploader
NoFile == [present |-> FALSE, wellformed |-> FALSE, tree |-> NoElem]

Malformed == [present |-> TRUE, wellformed |-> FALSE, tree |-> NoElem]

File(tree) == [present |-> TRUE, wellformed |-> TRUE, tree |-> tree]

\* the scenario document: one item, totals that agree
StdFile == File(NFe(StdHead, <<StdDet(<<"1">>)>>, Total(Money(10500), Money(10000), Money(10), Money(90))))

\* every run is one of these or one of its specification's documents
BaseFiles == {NoFile, Malformed, StdFile}

\* sequences of length 0..n over the set S
RECURSIVE SeqsUpTo(_, _)
SeqsUpTo(S, n) ==
    IF n = 0 THEN {<< >>}
    ELSE LET prev == SeqsUpTo(S, n - 1)
         IN  prev \cup {Append(q, x) : q \in {r \in prev : Len(r) = n - 1}, x \in S}

MaxItems == 2

(***************************************************************************)
(* Spec: runs over headers and parties with fields present, empty or       *)
(* missing, and over 0..MaxItems items, some of which make a step raise.   *)
(***************************************************************************)
MainHeads ==
    {Ide(t) \o Emit(<<"1", "1">>, <<"2", "2">>) \o Dest(<<"3", "3">>, <<"4", "4">>, <<"S", "P">>, <<"1">>) :
        t \in {<<"2">>, <<"1">>, Absent, NoText}}
    \cup {Ide(<<"2">>) \o Emit(NoText, <<"2", "2">>) \o Dest(<<"3", "3">>, <<"4", "4">>, Absent, <<"9">>),
          << >>}

MainDets ==
    {StdDet(<<"7">>), StdDet(Absent),
     \* no imposto at all
     DetOf(<<"2">>, El("prod", Prod(Money(10000), Absent, Absent, Absent, Absent))),
     \* vBC NaN under gIBSCBS
     Det(<<"3">>, Prod(Money(10000), Absent, Absent, Absent, Absent),
         IbsCbs(<<"0">>, <<"1">>, TxtNaN, Money(10), Money(90))),
     \* vProd Infinity
     Det(<<"4">>, Prod(TxtInf, Absent, Absent, Absent, Absent), StdIbsCbs)}

MainFiles ==
    BaseFiles \cup
    {File(NFe(h, ds, Total(Money(10500), Money(10000), Money(10), Money(90)))) :
        h \in MainHeads, ds \in SeqsUpTo(MainDets, MaxItems)}

Init ==
    /\ uploaded \in MainFiles
    /\ ibs_pct = 10
    /\ cbs_pct = 90
    /\ tolerance_centavos = 1
    /\ Start

Spec == Init /\ [][Next]_vars

(***************************************************************************)
(* Claims checked under Spec.                                              *)
(***************************************************************************)
ParseFailed == uploaded.present /\ ~uploaded.wellformed

Shown(w) == \E i \in 1..Len(ui) : ui[i].w = w

\* C3: when parsing the uploaded bytes fails, no table is ever built, shown or
\* offered for download, and the run ends with the parse error (st.error) and
\* nothing else; st.error is shown for no other failure.
C3_ParseFailureStopsRun ==
    /\ ParseFailed =>
          /\ rows = << >> /\ df_quadro = << >> /\ checks = << >> /\ df_check = << >>
          /\ ~Shown("st.dataframe(df_quadro)") /\ ~Shown("st.dataframe(df_check)")
          /\ ~Shown("st.download_button") /\ ~Shown("st.exception")
          /\ (pc = "done" => ui = <<Out("st.error")>>)
    /\ ~ParseFailed => ~Shown("st.error")

C3_Witness == ParseFailed /\ pc = "done" /\ Shown("st.error")

Grupos(t) == [i \in 1..Len(t) |-> t[i].Grupo]

Campos(t) == [i \in 1..Len(t) |-> t[i].Campo]

RECURSIVE ItemGroups(_, _)
ItemGroups(k, n) ==
    IF k > n THEN << >>
    ELSE [j \in 1..5 |-> <<"Item ">> \o NatStr(k)] \o ItemGroups(k + 1, n)

RECURSIVE ItemCampos(_)
ItemCampos(n) ==
    IF n = 0 THEN << >>
    ELSE <<"IBSCBS/CST", "IBSCBS/cClassTrib", "IBSCBS/vBC", "VALOR IBS", "VALOR CBS">>
         \o ItemCampos(n - 1)

\* C7: the checklist returned for a document with n items has 10 + 5n rows: the
\* header row, six party rows, five rows per item labelled with the item's
\* position 1..n in the document, then three totals rows, in this order.
C7_ChecklistOrder ==
    df_check # << >> =>
        LET n == Len(Dets(root))
        IN  /\ Len(df_check) = 10 + 5 * n
            /\ Grupos(df_check) = <<<<"Cabecalho">>>> \o [j \in 1..6 |-> <<"Partes">>]
                                  \o ItemGroups(1, n) \o [j \in 1..3 |-> <<"Totais">>]
            /\ Campos(df_check) =
                  <<"ide/tpAmb", "emit/CNPJ", "emit/IE", "dest/CNPJ", "dest/IE", "dest/UF",
                    "dest/indIEDest">> \o ItemCampos(n)
                  \o <<"IBSCBSTot/vBCIBSCBS", "IBSCBSTot/gIBS/vIBS", "IBSCBSTot/gCBS/vCBS">>

\* a checklist of two items whose nItem attributes are not their positions
C7_Witness ==
    /\ df_check # << >>
    /\ Len(Dets(root)) = 2
    /\ AttribGet(Dets(root)[1], "nItem") = <<"7">>
    /\ AttribGet(Dets(root)[2], "nItem") = <<"2">>

(***************************************************************************)
(* SpecChecklist: runs that vary what build_checklist computes with: the   *)
(* item's base and amounts around the tolerance boundary under several     *)
(* rates, item sums against declared totals, and numerals that are not     *)
(* finite numbers.                                                         *)
(***************************************************************************)
StdProd == Prod(Money(10000), Absent, Absent, Absent, Absent)

\* an item with the given texts of vBC, vIBS and vCBS
TaxedDet(nItem, vBC, vIBS, vCBS) ==
    Det(nItem, StdProd, IbsCbs(<<"0", "0", "0">>, <<"0", "0", "0", "0", "0", "1">>, vBC, vIBS, vCBS))

StdTotal == Total(Money(10500), Money(10000), Money(10), Money(90))

\* one item: bases 10.00 and 100.00, amounts around the expected ones
BoundaryFiles ==
    {File(NFe(StdHead, <<TaxedDet(<<"1">>, b, i, c)>>, StdTotal)) :
        b \in {Money(1000), Money(10000)},
        i \in {Money(1), Money(2), Money(3), Money(4), Money(5), Money(6),
               Money(10), Money(11), Money(12)},
        c \in {Money(9), Money(10), Money(4)}}

SumDets ==
    {TaxedDet(<<"1">>, Money(1000), Money(1), Money(9)),
     TaxedDet(<<"2">>, Mils(10005), Mils(14), Money(9)),
     TaxedDet(<<"3">>, Absent, TxtJunk, Absent)}

DeclaredTotals ==
    {Total(Money(10500), Money(2000), Money(2), Money(18)),
     Total(Money(10500), Money(2001), Money(2), Money(18)),
     Total(Money(10500), Mils(20010), Mils(28), Mils(180)),
     Total(Money(10500), Mils(20005), Mils(24), Money(19)),
     Total(Money(10500), Absent, Absent, Absent),
     Total(Money(10500), TxtJunk, NoText, Money(9)),
     Total(Money(10500), Money(1000), Money(1), TxtNaN),
     Total(Money(10500), Mils(10005), TxtInf, Money(0))}

SumFiles == {File(NFe(StdHead, ds, t)) : ds \in SeqsUpTo(SumDets, MaxItems), t \in DeclaredTotals}

NonFiniteFiles ==
    {File(NFe(StdHead, ds, StdTotal)) :
        ds \in {<<TaxedDet(<<"1">>, TxtNaN, Money(10), Money(90))>>,
                <<TaxedDet(<<"1">>, Money(10000), TxtNaN, Money(90))>>,
                <<TaxedDet(<<"1">>, Money(10000), Money(10), TxtNaN)>>,
                <<TaxedDet(<<"1">>, TxtInf, Money(10), Money(90))>>,
                <<TaxedDet(<<"1">>, Money(10000), TxtNegInf, Money(90))>>,
                <<StdDet(<<"1">>), TaxedDet(<<"2">>, Money(10000), TxtNaN, Money(90))>>}}
    \cup {File(NFe(StdHead, <<StdDet(<<"1">>)>>, Total(TxtInf, Money(10000), Money(10), Money(90))))}

InitChecklist ==
    /\ Start
    /\ \/ /\ uploaded \in BoundaryFiles
          /\ ibs_pct \in {10, 35}
          /\ cbs_pct \in {90, 35}
          /\ tolerance_centavos \in {0, 1}
       \/ /\ uploaded \in SumFiles
          /\ ibs_pct = 10
          /\ cbs_pct = 90
          /\ tolerance_centavos \in {0, 1, 5}
       \/ /\ uploaded \in BaseFiles \cup NonFiniteFiles
          /\ ibs_pct = 10
          /\ cbs_pct = 90
          /\ tolerance_centavos = 1

SpecChecklist == InitChecklist /\ [][Next]_vars

(***************************************************************************)
(* Claims checked under SpecChecklist.                                     *)
(***************************************************************************)
\* build_checklist has been entered and the run is over
ChecklistOver == pc \in {"export", "done"} /\ checks # << >>

\* C1: for every parsed document and every parameter triple, build_checklist
\* runs to completion and returns the checklist, whatever the texts of the
\* fields are (absent, empty, non-numeric, NaN, Infinity).
C1_ChecklistNeverRaises ==
    ChecklistOver => df_check # << >> /\ Len(df_check) = 10 + 5 * Len(Dets(root))

\* the value of a Decimal in thousandths
MilsOf(a) == Scaled(a, -3)

\* round half-up (ties away from zero) of v thousandths, in hundredths
HalfUpCents(v) == IF v >= 0 THEN (v + 5) \div 10 ELSE 0 - ((5 - v) \div 10)

\* round half-up to 2 decimals of (b thousandths) x (k/100 percent), in hundredths
ExpectedCents(b, k) == (b * k + 500000) \div 1000000

\* the rows of the item at position k of a finished checklist
ItemRow(k, j) == df_check[7 + 5 * (k - 1) + j]

Passes(row) == row.Status = "OK"

RECURSIVE SumMils(_, _)
SumMils(dets, f) ==
    IF dets = << >> THEN 0
    ELSE MilsOf(ItemVals(Head(dets), 0, 0)[f]) + SumMils(Tail(dets), f)

\* the text of a declared total
Declared(path) == gettext(root, Desc("IBSCBSTot") \o path)

\* the sum of the items equals the declared total exactly; an absent or
\* unparseable total counts as zero, a total that is no finite number equals nothing
ExactlyDeclared(f, path) ==
    LET t == Declared(path)
        v == IF t = NoText \/ DecimalOfStr(t).k = "X" THEN 0 ELSE MilsOf(DecimalOfStr(t))
    IN  /\ t = NoText \/ DecimalOfStr(t).k \in {"F", "X"}
        /\ SumMils(Dets(root), f) = v

TotalRow(j) == df_check[Len(df_check) - 3 + j]

\* C9: each of the three totals rows passes iff the unrounded sum of the items'
\* values equals the declared total exactly (absent or unparseable: zero),
\* whatever the tolerance is.
C9_TotalsExact ==
    df_check # << >> =>
        /\ Passes(TotalRow(1)) <=> ExactlyDeclared("vBC", Child("vBCIBSCBS"))
        /\ Passes(TotalRow(2)) <=> ExactlyDeclared("vIBS", Child("gIBS") \o Child("vIBS"))
        /\ Passes(TotalRow(3)) <=> ExactlyDeclared("vCBS", Child("gCBS") \o Child("vCBS"))

\* a declared base 0.01 above the items' sum fails under a tolerance of 0.05,
\* and a sum of bases with three decimals passes against its unrounded value
C9_Witness ==
    /\ df_check # << >>
    /\ tolerance_centavos = 5
    /\ \/ /\ MilsOf(d(Declared(Child("vBCIBSCBS")))) - SumMils(Dets(root), "vBC") = 10
          /\ ~Passes(TotalRow(1))
       \/ /\ SumMils(Dets(root), "vBC") = 20010
          /\ Passes(TotalRow(1))

(***************************************************************************)
(* SpecQuadro: runs that vary what build_quadro reads: the operands of the *)
(* item total, the shape of the ICMS, PIS, COFINS and IPI containers, the  *)
(* nItem attributes and their order, amounts with three decimals, no item  *)
(* at all, and numerals that are not finite numbers.                       *)
(***************************************************************************)
ProdVariants ==
    {StdProd,
     Prod(Mils(1005), Absent, Absent, Absent, Absent),
     Prod(Money(1000), Money(110), Money(220), Money(30), Money(440)),
     Prod(Money(100), Absent, Absent, Mils(2005), Absent),
     Prod(NoText, Money(250), Absent, Absent, TxtJunk),
     Prod(Absent, Absent, Absent, Absent, Absent)}

IpiVariants ==
    {<< >>, StdIpi, El("IPI", << >>),
     El("IPI", Leaf("cEnq", <<"9">>) \o El("IPINT", Leaf("CST", <<"5">>))),
     El("IPI", Leaf("cEnq", <<"9">>) \o El("IPITrib", Leaf("vBC", Money(100)) \o Leaf("vIPI", Mils(5))))}

\* the operands of the item total
TotalDets ==
    {Det(<<"1">>, p, StdIcms \o i \o StdPis \o StdCofins \o StdIbsCbs) : p \in ProdVariants, i \in IpiVariants}

IcmsShapes ==
    {<< >>, El("ICMS", << >>), StdIcms,
     TaxGroup("ICMS", El("ICMSSN102", Leaf("orig", <<"0">>) \o Leaf("CSOSN", <<"1", "0", "2">>))),
     TaxGroup("ICMS", TaxVariant("ICMS10", "ICMS", <<"1", "0">>, Money(5000), Money(1200), Money(600))
                      \o TaxVariant("ICMS00", "ICMS", <<"0", "0">>, Money(10000), Money(1800), Money(1800)))}

PisShapes ==
    {<< >>, El("PIS", << >>), StdPis, TaxGroup("PIS", El("PISNT", Leaf("CST", <<"0", "7">>)))}

CofinsShapes ==
    {<< >>, StdCofins,
     TaxGroup("COFINS", TaxVariant("COFINSOutr", "COFINS", NoText, Mils(1134), TxtJunk, Absent))}

\* the containers of ICMS, PIS and COFINS: absent, empty, one variant or two
ShapeDets ==
    {Det(<<"1">>, StdProd, i \o StdIpi \o p \o c \o StdIbsCbs) :
        i \in IcmsShapes, p \in PisShapes, c \in CofinsShapes}
    \cup {DetOf(<<"1">>, El("prod", StdProd))}

\* the items with the nItem attributes ns, the k-th with a product of k x 10.00
OrderDets(ns) ==
    [k \in 1..Len(ns) |->
        Det(ns[k], Prod(Money(1000 * k), Absent, Absent, Absent, Absent), StdIcms \o StdIbsCbs)]

NItems == {Absent, << >>, <<"2">>, <<"1", "0">>, <<"3">>}

OrderFiles ==
    {File(NFe(StdHead, OrderDets(ns), StdTotal)) : ns \in SeqsUpTo(NItems, MaxItems) \ {<< >>}}

\* an item whose ICMS base is the text vBC
BaseDet(nItem, vBC) ==
    Det(nItem, StdProd, TaxGroup("ICMS", TaxVariant("ICMS00", "ICMS", <<"0", "0">>, vBC, Money(1800), Money(0))))

\* bases with three decimals
MilsFiles ==
    {File(NFe(StdHead, <<BaseDet(<<"1">>, Mils(2)), BaseDet(<<"2">>, Mils(20)), BaseDet(<<"3">>, Mils(3))>>, StdTotal)),
     File(NFe(StdHead, <<BaseDet(<<"1">>, Mils(1)), BaseDet(<<"2">>, Mils(1134))>>, StdTotal)),
     File(NFe(StdHead, <<BaseDet(<<"1">>, Mils(1005)), BaseDet(<<"2">>, Mils(2005))>>, StdTotal))}

\* no item; an infinite ICMS base, an infinite product value, an nItem that is
\* no integer
OddFiles ==
    {File(NFe(StdHead, << >>, StdTotal)),
     File(NFe(StdHead, <<BaseDet(<<"1">>, TxtInf)>>, StdTotal)),
     File(NFe(StdHead, <<Det(<<"1">>, Prod(TxtInf, Absent, Absent, Absent, Absent), StdIbsCbs)>>, StdTotal)),
     File(NFe(StdHead, <<StdDet(<<"1">>), StdDet(TxtJunk)>>, StdTotal))}

QuadroFiles ==
    BaseFiles \cup OrderFiles \cup MilsFiles \cup OddFiles
    \cup {File(NFe(StdHead, <<dt>>, StdTotal)) : dt \in TotalDets \cup ShapeDets}

InitQuadro ==
    /\ uploaded \in QuadroFiles
    /\ ibs_pct = 10
    /\ cbs_pct = 90
    /\ tolerance_centavos = 1
    /\ Start

SpecQuadro == InitQuadro /\ [][Next]_vars

(***************************************************************************)
(* Claims checked under SpecQuadro.  What a row should hold is read off    *)
(* the document directly: the children of a node are the nodes of the next *)
(* depth up to the first node that is not deeper than it.                  *)
(***************************************************************************)
KidsOf(doc, i) ==
    {j \in (i + 1)..Len(doc) :
        /\ doc[j].depth = doc[i].depth + 1
        /\ \A h \in (i + 1)..(j - 1) : doc[h].depth > doc[i].depth}

\* the first of the nodes js in document order, 0 if there is none
FirstOf(js) == IF js = {} THEN 0 ELSE CHOOSE j \in js : \A h \in js : j <= h

\* the first child of node i named tag, 0 if there is none or i is 0
KidNamed(doc, i, tag) ==
    IF i = 0 THEN 0 ELSE FirstOf({j \in KidsOf(doc, i) : doc[j].ns = NfeNs /\ doc[j].tag = tag})

\* the text of that child, "" if there is none
KidText(doc, i, tag) ==
    LET j == KidNamed(doc, i, tag) IN IF j = 0 THEN << >> ELSE doc[j].text

\* the det nodes of the document, in document order
DetNodes(doc) == SelectSeq([h \in 1..Len(doc) |-> h], LAMBDA j : doc[j].ns = NfeNs /\ doc[j].tag = "det")

\* the amount a text stands for, in thousandths: 0 for a missing, empty or
\* non-numeric text
TextMils(t) == IF t = NoText \/ DecimalOfStr(t).k # "F" THEN 0 ELSE MilsOf(DecimalOfStr(t))

\* the float of v thousandths, of v hundredths
MilsFloat(v) == ToDouble(IF v < 0 THEN 1 ELSE 0, IF v < 0 THEN 0 - v ELSE v, 1000)

CentsFloat(v) == ToDouble(IF v < 0 THEN 1 ELSE 0, IF v < 0 THEN 0 - v ELSE v, 100)

\* every nItem attribute is missing, empty or an integer
NItemsOrdinary(doc) ==
    \A k \in 1..Len(DetNodes(doc)) :
        \A a \in doc[DetNodes(doc)[k]].attrib : a[1] = "nItem" => (a[2] = << >> \/ IntParses(a[2]))

\* the run has parsed a document and is past build_quadro
QuadroOver == root # NoElem /\ pc \in {"build_checklist", "checklist_items", "export", "done"}

\* C2: for a document without items build_quadro does not fail and returns
\* exactly one record, the totals record: Ordem "TOTAL", every numeric column 0.00.
C2_ZeroItemsTotalsOnly ==
    (QuadroOver /\ DetNodes(root.doc) = << >>) =>
        /\ Len(df_quadro) = 1
        /\ df_quadro[1].Ordem = OrdTotal
        /\ \A c \in NumericCols : df_quadro[1][c] = FZero

\* the decimal a cell shows, in thousandths (amounts of at most three decimals)
CellMils(x) ==
    LET v == FloorScaled(x, 1000)
        w == IF ToDouble(0, v, 1000).m = x.m /\ ToDouble(0, v, 1000).e = x.e THEN v ELSE v + 1
    IN  IF x.s = 1 THEN 0 - w ELSE w

RECURSIVE ColumnMils(_, _, _)
ColumnMils(df, n, c) == IF n = 0 THEN 0 ELSE ColumnMils(df, n - 1, c) + CellMils(df[n][c])

\* C5: in the table build_quadro returns, the totals record holds in every
\* numeric column the sum of the column over the item records, rounded half-up
\* to 2 decimals.
C5_TotalsAreColumnSums ==
    df_quadro # << >> =>
        LET n == Len(df_quadro) - 1
        IN  \A c \in NumericCols :
                df_quadro[n + 1][c] = CentsFloat(HalfUpCents(ColumnMils(df_quadro, n, c)))

\* the operands of the item total of the det at node j, in thousandths
ProdMils(doc, j, tag) == TextMils(KidText(doc, KidNamed(doc, j, "prod"), tag))

IpiMils(doc, j) ==
    LET ipi == KidNamed(doc, KidNamed(doc, j, "imposto"), "IPI")
        node == IF ipi = 0 THEN 0 ELSE FirstOf({h \in KidsOf(doc, ipi) : doc[h].tag \in {"IPITrib", "IPINT"}})
    IN  TextMils(KidText(doc, node, "vIPI"))

ItemTotalMils(doc, j) ==
    ProdMils(doc, j, "vProd") + ProdMils(doc, j, "vFrete") + ProdMils(doc, j, "vSeg")
    + ProdMils(doc, j, "vOutro") - ProdMils(doc, j, "vDesc") + IpiMils(doc, j)

\* C6: the item total of every extracted item is product value + freight +
\* insurance + other charges - discount + IPI amount, rounded half-up to 2
\* decimals, an absent operand counting as zero; it depends on no ICMS, PIS,
\* COFINS, IBS or CBS amount.
C6_ItemTotal ==
    \A k \in 1..Len(rows) :
        rows[k].TOTAL_ITEM = CentsFloat(HalfUpCents(ItemTotalMils(root.doc, DetNodes(root.doc)[k])))

\* an item total that is rounded up from exactly .005, one with every operand,
\* and the scenario's 100.00 + 5.00
C6_Witness ==
    /\ QuadroOver
    /\ Len(rows) = 1
    /\ \/ ItemTotalMils(root.doc, DetNodes(root.doc)[1]) = 1005 /\ rows[1].TOTAL_ITEM = CentsFloat(101)
       \/ ItemTotalMils(root.doc, DetNodes(root.doc)[1]) = 17450 /\ rows[1].TOTAL_ITEM = CentsFloat(1745)
       \/ ItemTotalMils(root.doc, DetNodes(root.doc)[1]) = 105000 /\ rows[1].TOTAL_ITEM = CentsFloat(10500)

\* the first child of the container <tax> of the det at node j, 0 if the
\* container is absent or empty
FirstVariant(doc, j, tax) ==
    LET cont == KidNamed(doc, KidNamed(doc, j, "imposto"), tax)
    IN  IF cont = 0 THEN 0 ELSE FirstOf(KidsOf(doc, cont))

\* the float a text stands for: 0.0 for a missing, empty or non-numeric text
TextFloat(t) ==
    IF t # NoText /\ DecimalOfStr(t).k = "I" THEN FInf(DecimalOfStr(t).s) ELSE MilsFloat(TextMils(t))

\* CST, base, rate and amount as they stand in node f ("" and zeros for f = 0)
VariantFields(doc, f, tax) ==
    <<KidText(doc, f, "CST"), TextFloat(KidText(doc, f, "vBC")),
      TextFloat(KidText(doc, f, "p" \o tax)), TextFloat(KidText(doc, f, "v" \o tax))>>

RowFields(row, tax) ==
    IF tax = "ICMS" THEN <<row.CST_ICMS, row.BC_ICMS, row.ALIQ_ICMS, row.VALOR_ICMS>>
    ELSE IF tax = "PIS" THEN <<row.CST_PIS, row.BASE_PIS, row.ALIQ_PIS, row.VALOR_PIS>>
    ELSE <<row.CST_COFINS, row.BASE_COFINS, row.ALIQ_COFINS, row.VALOR_COFINS>>

\* C8: for ICMS, PIS and COFINS of every extracted item: CST "" and base, rate
\* and amount 0 when the container is absent or has no child, otherwise the
\* fields of the container's first child whatever its tag; and build_quadro
\* does not fail, whatever the containers and their first children hold (the
\* documents have an item, and nItem attributes that are integers or missing).
C8_FirstChildOfContainer ==
    /\ \A k \in 1..Len(rows) : \A tax \in {"ICMS", "PIS", "COFINS"} :
          RowFields(rows[k], tax) =
             VariantFields(root.doc, FirstVariant(root.doc, DetNodes(root.doc)[k], tax), tax)
    /\ (QuadroOver /\ DetNodes(root.doc) # << >> /\ NItemsOrdinary(root.doc)) =>
          Len(df_quadro) = Len(DetNodes(root.doc)) + 1

\* the nItem attribute of the det at node j, "" if it has none
NItemOf(doc, j) ==
    IF \E a \in doc[j].attrib : a[1] = "nItem" THEN (CHOOSE a \in doc[j].attrib : a[1] = "nItem")[2] ELSE << >>

Count(seq, x) == Cardinality({i \in 1..Len(seq) : seq[i] = x})

\* C10: for a document with n >= 1 items whose nItem attributes are integers
\* or missing, build_quadro returns n + 1 records: the first n are the item
\* records, each as often as extracted, those with an integer Ordem in ascending
\* order whatever the document order is; only the last has Ordem "TOTAL"; an
\* item without nItem has a null Ordem and the extraction completes.
C10_SortedThenTotal ==
    LET doc == root.doc
        n == Len(DetNodes(doc))
    IN  (QuadroOver /\ n >= 1 /\ NItemsOrdinary(doc)) =>
            /\ Len(rows) = n
            /\ Len(df_quadro) = n + 1
            /\ df_quadro[n + 1].Ordem = OrdTotal
            /\ \A i \in 1..n :
                  /\ df_quadro[i].Ordem # OrdTotal
                  /\ Count(SubSeq(df_quadro, 1, n), rows[i]) = Count(rows, rows[i])
                  /\ rows[i].Ordem = IF NItemOf(doc, DetNodes(doc)[i]) = << >> THEN OrdNone
                                     ELSE OrdInt(IntOf(NItemOf(doc, DetNodes(doc)[i])))
            /\ \A i, j \in 1..n :
                  (i < j /\ df_quadro[i].Ordem.k = "int" /\ df_quadro[j].Ordem.k = "int") =>
                      df_quadro[i].Ordem.n <= df_quadro[j].Ordem.n

=============================================================================
